---------------------------- MODULE Spec2Model ----------------------------
(***************************************************************************)
(* Duty roster to calendar converter (src/app.py).                         *)
(*                                                                         *)
(* The Streamlit script is a wizard: upload, filename match, workbook      *)
(* open, sheet selection, header classification, name selection, generate. *)
(* process_roster is the function behind "generate"; it is also modelled   *)
(* as a direct call on the uploaded file.                                  *)
(*                                                                         *)
(* A Python str is a sequence of one-character strings, so that searching, *)
(* lowercasing, trimming, parsing and formatting are computed character by *)
(* character.  Characters are ASCII.                                       *)
(***************************************************************************)
EXTENDS Integers, Sequences, FiniteSets, TLC

VARIABLES
    pc,                   \* position of the script run
    uploaded_file,        \* [name, book] once a file is uploaded
    filename_month_name,  \* top-level match groups (line 124)
    filename_year_str,
    xls,                  \* TRUE once pd.ExcelFile has listed the sheets
    filtered_sheet_names, \* line 131
    selected_sheet,       \* line 139
    skiprows,             \* line 144
    df_for_cols,          \* columns of the header-only read (line 148)
    duty_names,           \* lines 164-189
    selected_name,        \* line 196
    result,               \* last call of process_roster: arguments, locals, return value
    download,             \* the download button of lines 213-218, when offered
    messages              \* st.error / st.warning shown, in order

vars == <<pc, uploaded_file, filename_month_name, filename_year_str, xls,
          filtered_sheet_names, selected_sheet, skiprows, df_for_cols,
          duty_names, selected_name, result, download, messages>>

-----------------------------------------------------------------------------
(* Bounds of the explored inputs *)

MaxPieces == 3
MaxCols == 3
MaxRows == 3
MaxSheets == 2

-----------------------------------------------------------------------------
(* Python values *)

None == [none |-> TRUE]
Some(v) == [none |-> FALSE, v |-> v]

NumCell(n) == [k |-> "num", n |-> n, half |-> FALSE]
HalfCell(n) == [k |-> "num", n |-> n, half |-> TRUE]
StrCell(s) == [k |-> "str", s |-> s]
NaN == [k |-> "nan"]

-----------------------------------------------------------------------------
(* str operations *)

UpperLetters == <<"A","B","C","D","E","F","G","H","I","J","K","L","M","N","O","P","Q","R","S","T","U","V","W","X","Y","Z">>
LowerLetters == <<"a","b","c","d","e","f","g","h","i","j","k","l","m","n","o","p","q","r","s","t","u","v","w","x","y","z">>
DigitChars == <<"0","1","2","3","4","5","6","7","8","9">>

Range(s) == {s[i] : i \in 1..Len(s)}

DigitSet == Range(DigitChars)

isdigit(c) == c \in DigitSet

isspace(c) == c \in {" ", "\t"}

UpperSet == Range(UpperLetters)

LowerOf == [c \in UpperSet |-> LowerLetters[CHOOSE i \in 1..26 : UpperLetters[i] = c]]

lowerChar(c) == IF c \in UpperSet THEN LowerOf[c] ELSE c

lower(s) == [i \in 1..Len(s) |-> lowerChar(s[i])]

strip(s) ==
    LET keep == {i \in 1..Len(s) : ~isspace(s[i])}
    IN IF keep = {} THEN << >>
       ELSE SubSeq(s, CHOOSE i \in keep : \A j \in keep : i <= j,
                      CHOOSE i \in keep : \A j \in keep : i >= j)

StartsAt(hay, needle, i) ==
    /\ i + Len(needle) - 1 <= Len(hay)
    /\ \A j \in 1..Len(needle) : hay[i + j - 1] = needle[j]

Contains(hay, needle) == \E i \in 1..(Len(hay) + 1) : StartsAt(hay, needle, i)

replace(s, old, new) == [i \in 1..Len(s) |-> IF s[i] = old THEN new ELSE s[i]]

RECURSIVE Concat(_)
Concat(parts) == IF parts = << >> THEN << >> ELSE parts[1] \o Concat(Tail(parts))

DigitValues == [c \in DigitSet |-> (CHOOSE i \in 1..10 : DigitChars[i] = c) - 1]

DigitVal(c) == DigitValues[c]

RECURSIVE int(_)
int(s) == IF Len(s) = 0 THEN 0
          ELSE 10 * int(SubSeq(s, 1, Len(s) - 1)) + DigitVal(s[Len(s)])

RECURSIVE str(_)
str(n) == IF n < 0 THEN <<"-">> \o str(0 - n)
          ELSE IF n < 10 THEN <<DigitChars[n + 1]>>
          ELSE str(n \div 10) \o <<DigitChars[(n % 10) + 1]>>

format02d(n) ==
    IF Len(str(n)) >= 2 THEN str(n)
    ELSE IF n < 0 THEN <<"-">> \o <<"0">> \o str(0 - n)
    ELSE <<"0">> \o str(n)

-----------------------------------------------------------------------------
(* Filename date extraction: re.search(pattern, name, re.IGNORECASE) *)

MonthNames ==
    << <<"J","a","n","u","a","r","y">>,
       <<"F","e","b","r","u","a","r","y">>,
       <<"M","a","r","c","h">>,
       <<"A","p","r","i","l">>,
       <<"M","a","y">>,
       <<"J","u","n","e">>,
       <<"J","u","l","y">>,
       <<"A","u","g","u","s","t">>,
       <<"S","e","p","t","e","m","b","e","r">>,
       <<"O","c","t","o","b","e","r">>,
       <<"N","o","v","e","m","b","e","r">>,
       <<"D","e","c","e","m","b","e","r">> >>

RosterPatternMonths ==
    << <<"J","a","n","u","a","r","y">>,
       <<"F","e","b","r","u","a","r","y">>,
       <<"M","a","r","c","h">>,
       <<"A","p","r","i","l">>,
       <<"M","a","y">>,
       <<"J","u","n","e">>,
       <<"J","u","l","y">>,
       <<"A","u","g","u","s","t">>,
       <<"S","e","p","t","e","m","b","e","r">>,
       <<"O","c","t","o","b","e","r">>,
       <<"N","o","v","e","m","b","e","r">>,
       <<"D","e","c","e","m","b","e","r">> >>

TopLevelPatternMonths ==
    << <<"J","a","n","u","a","r","y">>,
       <<"F","e","b","r","u","a","r","y">>,
       <<"M","a","r","c","h">>,
       <<"A","p","r","i","l">>,
       <<"M","a","y">>,
       <<"J","u","n","e">>,
       <<"J","u","l","y">>,
       <<"A","u","g","u","s","t">>,
       <<"S","e","p","t","e","m","b","e","r">>,
       <<"O","c","t","o","b","e","r">>,
       <<"N","o","v","e","m","b","e","r">>,
       <<"D","e","c","e","m","b","e","r">> >>

WhitespaceRun(s, j) ==
    LET runs == {w \in 0..(Len(s) - j + 1) : \A t \in j..(j + w - 1) : isspace(s[t])}
    IN CHOOSE w \in runs : \A v \in runs : v <= w

FourDigitsAt(s, j) ==
    /\ j + 3 <= Len(s)
    /\ \A t \in j..(j + 3) : isdigit(s[t])

\* mutant: the month is matched with its casing (re.IGNORECASE left out)
AltMatchesAt_cased(alt, s, i) ==
    /\ i + Len(alt) - 1 <= Len(s)
    /\ \A j \in 1..Len(alt) : s[i + j - 1] = alt[j]
    /\ WhitespaceRun(s, i + Len(alt)) >= 1
    /\ FourDigitsAt(s, i + Len(alt) + WhitespaceRun(s, i + Len(alt)))

AltMatchesAt(alt, s, i) ==
    /\ i + Len(alt) - 1 <= Len(s)
    /\ \A j \in 1..Len(alt) : lowerChar(s[i + j - 1]) = lowerChar(alt[j])
    /\ WhitespaceRun(s, i + Len(alt)) >= 1
    /\ FourDigitsAt(s, i + Len(alt) + WhitespaceRun(s, i + Len(alt)))

RECURSIVE TryAlternatives(_, _, _, _)
TryAlternatives(alts, s, i, k) ==
    IF k > Len(alts) THEN [matched |-> FALSE]
    ELSE IF AltMatchesAt(alts[k], s, i)
    THEN LET e == i + Len(alts[k])
             y == e + WhitespaceRun(s, e)
         IN [matched |-> TRUE, start |-> i,
             groups |-> <<SubSeq(s, i, e - 1), SubSeq(s, y, y + 3)>>]
    ELSE TryAlternatives(alts, s, i, k + 1)

RECURSIVE SearchFrom(_, _, _)
SearchFrom(alts, s, i) ==
    IF i > Len(s) THEN [matched |-> FALSE]
    ELSE LET here == TryAlternatives(alts, s, i, 1)
         IN IF here.matched THEN here ELSE SearchFrom(alts, s, i + 1)

re_search(alts, s) == SearchFrom(alts, s, 1)

roster_match(filename) == re_search(RosterPatternMonths, filename)

toplevel_match(name) == re_search(TopLevelPatternMonths, name)

month_map(key) ==
    IF \E num \in 1..12 : lower(MonthNames[num]) = key
    THEN Some(CHOOSE num \in 1..12 : lower(MonthNames[num]) = key)
    ELSE None

-----------------------------------------------------------------------------
(* Header row convention *)

SeniorSheet == <<"D","u","t","y"," ","-"," ","S","e","n","i","o","r">>
MOSheet == <<"D","u","t","y","_","M","O">>
PartTimeSheet == <<"D","u","t","y"," ","-"," ","P","a","r","t"," ","t","i","m","e">>

\* mutant: the senior sheet is missing from the map of process_roster
roster_header_row_map_get_default(sheet_name) == 2

roster_header_row_map_get(sheet_name) ==
    IF sheet_name = SeniorSheet THEN 3
    ELSE IF sheet_name = MOSheet THEN 2
    ELSE IF sheet_name = PartTimeSheet THEN 2
    ELSE 2

toplevel_header_row_map_get(sheet_name) ==
    IF sheet_name = SeniorSheet THEN 3
    ELSE IF sheet_name = MOSheet THEN 2
    ELSE IF sheet_name = PartTimeSheet THEN 2
    ELSE 2

-----------------------------------------------------------------------------
(* pd.read_excel: a book is [readable, sheets]; a sheet is [name, rows],   *)
(* rows being the raw grid, every row a sequence of cells.                 *)

Unnamed(i) == <<"U","n","n","a","m","e","d",":"," ">> \o str(i - 1)

BaseLabel(cell, i) ==
    IF cell.k = "nan" THEN Unnamed(i)
    ELSE IF cell.k = "str" THEN cell.s
    ELSE str(cell.n)

ColumnLabels(header) ==
    [i \in 1..Len(header) |->
        LET base == BaseLabel(header[i], i)
            seen == Cardinality({j \in 1..(i - 1) : BaseLabel(header[j], j) = base})
        IN IF seen = 0 THEN base ELSE base \o <<".">> \o str(seen)]

HasSheet(book, sheet_name) == \E i \in 1..Len(book.sheets) : book.sheets[i].name = sheet_name

SheetOf(book, sheet_name) ==
    book.sheets[CHOOSE i \in 1..Len(book.sheets) :
                    /\ book.sheets[i].name = sheet_name
                    /\ \A j \in 1..(i - 1) : book.sheets[j].name # sheet_name]

read_excel(book, sheet_name, skip, headerOnly) ==
    IF ~book.readable \/ ~HasSheet(book, sheet_name) THEN [raised |-> TRUE]
    ELSE LET raw == SheetOf(book, sheet_name).rows
         IN IF Len(raw) <= skip
            THEN [raised |-> FALSE, columns |-> << >>, data |-> << >>]
            ELSE [raised |-> FALSE,
                  columns |-> ColumnLabels(raw[skip + 1]),
                  data |-> IF headerOnly THEN << >> ELSE SubSeq(raw, skip + 2, Len(raw))]

-----------------------------------------------------------------------------
(* Column classifier (lines 152-189) *)

non_name_patterns ==
    << <<"u","n","n","a","m","e","d">>, <<"w","e","e","k">>, <<"d","a","y">>, <<"a","m">>, <<"p","m">>, <<"c","o","n","s","u","l","t","a","n","t">>, <<"s","p","e","c","i","a","l","i","s","t">>,
       <<"f","i","n","a","l"," ","c","a","l","l">>, <<"p","a","r","t","-","t","i","m","e">>, <<"l","o","c","u","m">>, <<"f","u","l","l">>, <<"h","a","l","f">>, <<"t","o","t","a","l">>,
       <<"i","c">>, <<"a","e">>, <<"a","w">>, <<"p","w">>, <<"r","a","t">>, <<"l","e","a","v","e">>, <<"a","c">>,
       <<"i","n","t","e","r","n">>, <<"r","s">>, <<"r","t">>, <<"s","m","o">>, <<"c","o","n","s">>, <<"e","m","w">>, <<"n","e","w">>,
       <<"r","o","t","a","t","i","o","n">>, <<"s","u","r">>, <<"o","r","t">>, <<"d","i","i","r">>, <<"v","i","s","i","t","i","n","g"," ","d","r">>,
       <<"f","a","l","l">>, <<"s","h","i","f","t">>, <<"q","e","h">>, <<"m","o">>,
       <<"f","m">>,
       <<"o","r","t","h","o">> >>

\* mutant: a pattern must be the whole header
is_non_name_exact(col_lower) ==
    \E p \in 1..Len(non_name_patterns) : col_lower = non_name_patterns[p]

is_non_name(col_lower) ==
    \E p \in 1..Len(non_name_patterns) : Contains(col_lower, non_name_patterns[p])

\* 0 when the column is appended to duty_names, else the number of the
\* check whose "continue" skipped it
exclusion_rule(col) ==
    LET col_lower == strip(lower(col))
    IN IF Contains(col_lower, <<"u","n","n","a","m","e","d">>) THEN 1
       ELSE IF Len(col_lower) = 1 THEN 2
       ELSE IF \E i \in 1..Len(col_lower) : isdigit(col_lower[i]) THEN 3
       ELSE IF is_non_name(col_lower) THEN 4
       ELSE 0

classify(columns) == SelectSeq(columns, LAMBDA col : exclusion_rule(col) = 0)

-----------------------------------------------------------------------------
(* process_roster (lines 8-97) *)

\* pd.to_numeric(errors='coerce') on one cell: a number, text made of
\* digits only, or NaN for blank cells and any other text
to_numeric_notna(cell) ==
    \/ cell.k = "num"
    \/ /\ cell.k = "str"
       /\ Len(cell.s) >= 1
       /\ \A i \in 1..Len(cell.s) : isdigit(cell.s[i])

\* astype(int) on one retained cell: floats are truncated, digit text parsed
astype_int(cell) == IF cell.k = "num" THEN cell.n ELSE int(cell.s)

\* astype(str) on a duty cell: text as it is, a missing value as "nan"
astype_str(cell) == IF cell.k = "nan" THEN <<"n","a","n">> ELSE cell.s

ColumnIndex(columns, label) == CHOOSE i \in 1..Len(columns) : columns[i] = label

Count(columns, label) == Cardinality({i \in 1..Len(columns) : columns[i] = label})

\* df.rename(columns={df.columns[0]: "week", df.columns[1]: "day"})
rename(columns) ==
    [i \in 1..Len(columns) |->
        IF columns[i] = columns[2] THEN <<"d","a","y">>
        ELSE IF columns[i] = columns[1] THEN <<"w","e","e","k">>
        ELSE columns[i]]

\* mutant: a failure returns the date info it has with no table
Failure_with_date_info(sheet_name, duty_column_name, filename, message, locals) ==
    [called |-> TRUE, sheet_name |-> sheet_name, duty_column_name |-> duty_column_name,
     filename |-> filename, final_df |-> None,
     date_info |-> IF locals.month_name = None THEN None
                   ELSE Some(<<locals.month_name.v, locals.year_str.v>>),
     message |-> message, locals |-> locals]

Failure(sheet_name, duty_column_name, filename, message, locals) ==
    [called |-> TRUE, sheet_name |-> sheet_name, duty_column_name |-> duty_column_name,
     filename |-> filename, final_df |-> None, date_info |-> None,
     message |-> message, locals |-> locals]

NoLocals == [month_name |-> None, year_str |-> None, skiprows |-> None]

\* lines 58-67: projection to (day, duty), numeric filter, int cast, dropna;
\* rows keep their index label (position in the data as read, from 0)
project(data, columns, duty_column_name) ==
    [i \in 1..Len(data) |->
        [index |-> i - 1,
         day |-> data[i][ColumnIndex(columns, <<"d","a","y">>)],
         duty |-> data[i][ColumnIndex(columns, duty_column_name)]]]

numeric_days(df) ==
    LET kept == SelectSeq(df, LAMBDA r : to_numeric_notna(r.day))
    IN [i \in 1..Len(kept) |->
           [index |-> kept[i].index, day |-> astype_int(kept[i].day), duty |-> kept[i].duty]]

\* mutant: the rows without duty are not dropped
dropna_omitted(df) == df

dropna(df) == SelectSeq(df, LAMBDA r : r.duty.k # "nan")

\* mutant: the label of the anchor used as a position (iloc for loc)
from_day_one_iloc(df) ==
    LET start_index == (CHOOSE i \in 1..Len(df) :
                            /\ df[i].day = 1
                            /\ \A j \in 1..(i - 1) : df[j].day # 1)
        label == df[start_index].index
    IN SubSeq(df, label + 1, Len(df))

\* mutant: the anchor is the last day-1 row
from_day_one_last(df) ==
    LET start_index == (CHOOSE i \in 1..Len(df) :
                            /\ df[i].day = 1
                            /\ \A j \in (i + 1)..Len(df) : df[j].day # 1)
        label == df[start_index].index
    IN SelectSeq(df, LAMBDA r : r.index >= label)

\* lines 75-76: label of the first day-1 row, then the label slice df.loc[start_index:]
from_day_one(df) ==
    LET start_index == (CHOOSE i \in 1..Len(df) :
                            /\ df[i].day = 1
                            /\ \A j \in 1..(i - 1) : df[j].day # 1)
        label == df[start_index].index
    IN SelectSeq(df, LAMBDA r : r.index >= label)

\* mutant: month and day without zero padding
start_date_unpadded(year, month, day) ==
    str(year) \o <<"-">> \o str(month) \o <<"-">> \o str(day)

start_date(year, month, day) ==
    str(year) \o <<"-">> \o format02d(month) \o <<"-">> \o format02d(day)

calendar_df(df, year, month) ==
    [i \in 1..Len(df) |->
        [Subject |-> astype_str(df[i].duty),
         Start_Date |-> start_date(year, month, df[i].day),
         All_Day_Event |-> "True"]]

process_roster(file_bytes, sheet_name, duty_column_name, filename) ==
    LET match == roster_match(filename)
    IN
    IF ~match.matched
    THEN Failure(sheet_name, duty_column_name, filename, "filename_format", NoLocals)
    ELSE
    LET month_name == match.groups[1]
        year_str == match.groups[2]
        year == int(year_str)
        month == month_map(lower(month_name)).v
        skip == roster_header_row_map_get(sheet_name)
        locals == [month_name |-> Some(month_name), year_str |-> Some(year_str),
                   skiprows |-> Some(skip)]
        read == read_excel(file_bytes, sheet_name, skip, FALSE)
        Fail(message) == Failure(sheet_name, duty_column_name, filename, message, locals)
    IN
    IF read.raised THEN Fail("unexpected")
    ELSE IF Len(read.columns) < 2 THEN Fail("unexpected")
    ELSE
    LET columns == rename(read.columns)
    IN
    IF Count(columns, duty_column_name) = 0 THEN Fail("column_not_found")
    ELSE IF Count(columns, <<"d","a","y">>) > 1 \/ Count(columns, duty_column_name) > 1
              \/ duty_column_name = <<"d","a","y">>
    THEN Fail("unexpected")
    ELSE
    LET df == dropna(numeric_days(project(read.data, columns, duty_column_name)))
    IN
    IF df = << >> THEN Fail("no_duties")
    ELSE IF \A i \in 1..Len(df) : df[i].day # 1 THEN Fail("month_start")
    ELSE [called |-> TRUE, sheet_name |-> sheet_name,
          duty_column_name |-> duty_column_name, filename |-> filename,
          final_df |-> Some(calendar_df(from_day_one(df), year, month)),
          date_info |-> Some(<<month_name, year_str>>),
          message |-> "none", locals |-> locals]

-----------------------------------------------------------------------------
(* The script (lines 100-221) *)

Init ==
    /\ pc = "upload"
    /\ uploaded_file = None
    /\ filename_month_name = None
    /\ filename_year_str = None
    /\ xls = FALSE
    /\ filtered_sheet_names = << >>
    /\ selected_sheet = None
    /\ skiprows = None
    /\ df_for_cols = None
    /\ duty_names = << >>
    /\ selected_name = None
    /\ result = [called |-> FALSE]
    /\ download = None
    /\ messages = << >>

\* lines 110-115
Upload(f) ==
    /\ pc = "upload"
    /\ uploaded_file' = f
    /\ pc' = "match"
    /\ UNCHANGED <<filename_month_name, filename_year_str, xls, filtered_sheet_names,
                   selected_sheet, skiprows, df_for_cols, duty_names, selected_name,
                   result, download, messages>>

\* mutant: the error is shown and the script goes on (st.stop() left out)
MatchFilename_no_stop ==
    /\ pc = "match"
    /\ LET match == toplevel_match(uploaded_file.name)
       IN IF ~match.matched
          THEN /\ messages' = Append(messages, "filename_format")
               /\ UNCHANGED <<filename_month_name, filename_year_str>>
          ELSE /\ filename_month_name' = Some(match.groups[1])
               /\ filename_year_str' = Some(match.groups[2])
               /\ UNCHANGED messages
    /\ pc' = "open"
    /\ UNCHANGED <<uploaded_file, xls, filtered_sheet_names, selected_sheet, skiprows,
                   df_for_cols, duty_names, selected_name, result, download>>

\* lines 118-124
MatchFilename ==
    /\ pc = "match"
    /\ LET match == toplevel_match(uploaded_file.name)
       IN IF ~match.matched
          THEN /\ messages' = Append(messages, "filename_format")
               /\ pc' = "stopped"
               /\ UNCHANGED <<filename_month_name, filename_year_str>>
          ELSE /\ filename_month_name' = Some(match.groups[1])
               /\ filename_year_str' = Some(match.groups[2])
               /\ pc' = "open"
               /\ UNCHANGED messages
    /\ UNCHANGED <<uploaded_file, xls, filtered_sheet_names, selected_sheet, skiprows,
                   df_for_cols, duty_names, selected_name, result, download>>

all_sheet_names(book) == [i \in 1..Len(book.sheets) |-> book.sheets[i].name]

\* lines 126-135, and the handler of line 220 when the file cannot be read
OpenWorkbook ==
    /\ pc = "open"
    /\ IF ~uploaded_file.book.readable
       THEN /\ messages' = Append(messages, "failed_read")
            /\ pc' = "stopped"
            /\ UNCHANGED <<xls, filtered_sheet_names>>
       ELSE LET filtered == SelectSeq(all_sheet_names(uploaded_file.book),
                                      LAMBDA name : Contains(name, <<"D","u","t","y">>))
            IN /\ xls' = TRUE
               /\ filtered_sheet_names' = filtered
               /\ IF filtered = << >>
                  THEN /\ messages' = Append(messages, "no_duty_sheets")
                       /\ pc' = "stopped"
                  ELSE /\ pc' = "sheet"
                       /\ UNCHANGED messages
    /\ UNCHANGED <<uploaded_file, filename_month_name, filename_year_str, selected_sheet,
                   skiprows, df_for_cols, duty_names, selected_name, result, download>>

\* line 139
SelectSheet(sheet) ==
    /\ pc = "sheet"
    /\ sheet \in Range(filtered_sheet_names)
    /\ selected_sheet' = Some(sheet)
    /\ pc' = "classify"
    /\ UNCHANGED <<uploaded_file, filename_month_name, filename_year_str, xls,
                   filtered_sheet_names, skiprows, df_for_cols, duty_names,
                   selected_name, result, download, messages>>

\* lines 141-192
ClassifyHeaders ==
    /\ pc = "classify"
    /\ LET skip == toplevel_header_row_map_get(selected_sheet.v)
           read == read_excel(uploaded_file.book, selected_sheet.v, skip, TRUE)
           names == classify(read.columns)
       IN /\ skiprows' = Some(skip)
          /\ df_for_cols' = Some(read.columns)
          /\ duty_names' = names
          /\ IF names = << >>
             THEN /\ messages' = Append(messages, "no_names")
                  /\ pc' = "stopped"
             ELSE /\ pc' = "name"
                  /\ UNCHANGED messages
    /\ UNCHANGED <<uploaded_file, filename_month_name, filename_year_str, xls,
                   filtered_sheet_names, selected_sheet, selected_name, result, download>>

\* line 196
SelectName(name) ==
    /\ pc = "name"
    /\ name \in Range(duty_names)
    /\ selected_name' = Some(name)
    /\ pc' = "generate"
    /\ UNCHANGED <<uploaded_file, filename_month_name, filename_year_str, xls,
                   filtered_sheet_names, selected_sheet, skiprows, df_for_cols,
                   duty_names, result, download, messages>>

\* line 212
output_filename ==
    replace(selected_name.v, " ", "_") \o <<"-">> \o selected_sheet.v \o <<"-">>
        \o filename_month_name.v \o <<"-">> \o filename_year_str.v \o <<"-","C","a","l","e","n","d","a","r",".","c","s","v">>

Report(r) == IF r.message = "none" THEN messages ELSE Append(messages, r.message)

\* lines 200-218: the button is clicked
Generate ==
    /\ pc = "generate"
    /\ LET r == process_roster(uploaded_file.book, selected_sheet.v, selected_name.v,
                               uploaded_file.name)
       IN /\ result' = r
          /\ messages' = Report(r)
          /\ download' = IF r.final_df # None /\ r.date_info # None
                         THEN Some([file_name |-> output_filename, table |-> r.final_df.v])
                         ELSE None
    /\ pc' = "done"
    /\ UNCHANGED <<uploaded_file, filename_month_name, filename_year_str, xls,
                   filtered_sheet_names, selected_sheet, skiprows, df_for_cols,
                   duty_names, selected_name>>

\* process_roster called as a function on the uploaded file, once per upload
DirectCall(sheet_name, duty_column_name) ==
    /\ pc # "upload"
    /\ ~result.called
    /\ LET r == process_roster(uploaded_file.book, sheet_name, duty_column_name,
                               uploaded_file.name)
       IN /\ result' = r
          /\ messages' = Report(r)
    /\ UNCHANGED <<pc, uploaded_file, filename_month_name, filename_year_str, xls,
                   filtered_sheet_names, selected_sheet, skiprows, df_for_cols,
                   duty_names, selected_name, download>>

-----------------------------------------------------------------------------
(* Explored inputs *)

SeqsUpTo(S, n) == UNION {[1..k -> S] : k \in 0..n}

\* lines 35-37: the rows above the header row of a sheet
BannerRows(name) == IF name = SeniorSheet THEN 3 ELSE 2

BannerRow(width) == [i \in 1..width |-> IF i = 1 THEN StrCell(<<"R","o","s","t","e","r">>) ELSE NaN]

MakeSheet(name, header, data) ==
    [name |-> name,
     rows |-> [i \in 1..BannerRows(name) |-> BannerRow(Len(header))] \o <<header>> \o data]

Book(sheets) == [readable |-> TRUE, sheets |-> sheets]

CorruptBook == [readable |-> FALSE, sheets |-> << >>]

Text(cells) == [i \in 1..Len(cells) |-> StrCell(cells[i])]

FnAugust == <<"D","u","t","y"," ","A","u","g","u","s","t"," ","2","0","2","5"," ","F","i","n","a","l",".","x","l","s","x">>
FnRoster == <<"A","u","g","u","s","t"," ","2","0","2","5",".","x","l","s","x">>
FnFebruary == <<"r","o","s","t","e","r"," ","F","E","B","R","U","A","R","Y"," "," ","2","0","2","4",".","x","l","s","x">>
FnBad == <<"D","u","t","y"," ","A","u","g"," ","2","0","2","5",".","x","l","s","x">>

Nobody == <<"N","o","b","o","d","y">>

\* the names a direct call is tried with: the candidate names of the sheet and
\* one name that is no column
DirectNames(book, sheet_name) ==
    LET read == read_excel(book, sheet_name, roster_header_row_map_get(sheet_name), TRUE)
    IN IF read.raised THEN {Nobody} ELSE Range(classify(read.columns)) \cup {Nobody}

DirectCalls ==
    /\ pc # "upload"
    /\ ~result.called
    /\ \E sheet_name \in Range(all_sheet_names(uploaded_file.book)) :
           \E name \in DirectNames(uploaded_file.book, sheet_name) :
               DirectCall(sheet_name, name)

WizardSteps ==
    \/ MatchFilename
    \/ OpenWorkbook
    \/ \E sheet \in Range(filtered_sheet_names) : SelectSheet(sheet)
    \/ ClassifyHeaders
    \/ \E name \in Range(duty_names) : SelectName(name)
    \/ Generate

(* the wizard *)

WorkflowSheets ==
    { MakeSheet(SeniorSheet, Text(<<<<"W","e","e","k">>, <<"D","a","t","e">>, <<"C","h","a","n">>, <<"S","i","m","o","n">>>>),
                << <<NaN, NumCell(30), StrCell(<<"A","M">>), NaN>>,
                   <<NaN, NumCell(1), StrCell(<<"P","M"," ","c","a","l","l">>), NaN>>,
                   <<NaN, NumCell(2), NaN, NaN>> >>),
      MakeSheet(MOSheet, Text(<<<<"W","e","e","k">>, <<"D","a","y">>, <<"L","e","e">>, <<"W","o","n","g">>>>),
                << <<NaN, NumCell(5), StrCell(<<"A","M">>), NaN>>,
                   <<NaN, NumCell(6), StrCell(<<"P","M">>), NaN>> >>),
      MakeSheet(<<"L","e","a","v","e">>, Text(<<<<"W","e","e","k">>, <<"D","a","y">>, <<"C","h","a","n">>>>), << >>),
      MakeSheet(PartTimeSheet, Text(<<<<"W","e","e","k">>, <<"D","a","y">>, <<"A","M">>>>),
                << <<NaN, NumCell(1), StrCell(<<"x">>)>> >>),
      MakeSheet(<<"D","u","t","y"," ","X">>, Text(<<<<"C","h","a","n">>>>), << <<StrCell(<<"A","M">>)>> >>) }

Distinct(sheets) == \A i, j \in 1..Len(sheets) : i # j => sheets[i].name # sheets[j].name

WorkflowBooks ==
    {CorruptBook} \cup
    {Book(sheets) : sheets \in {s \in SeqsUpTo(WorkflowSheets, MaxSheets) : Distinct(s)}}

WorkflowFiles == {[name |-> n, book |-> b] : n \in {FnAugust, FnBad}, b \in WorkflowBooks}

Next ==
    \/ pc = "upload" /\ \E f \in WorkflowFiles : Upload(f)
    \/ WizardSteps

Spec == Init /\ [][Next]_vars

(* the wizard, and process_roster called directly *)

NextCalls ==
    \/ pc = "upload" /\ \E f \in WorkflowFiles : Upload(f)
    \/ WizardSteps
    \/ DirectCalls

SpecCalls == Init /\ [][NextCalls]_vars

(* process_roster on rosters of up to MaxRows rows *)

DayCells ==
    {NumCell(1), HalfCell(2), NumCell(30), StrCell(<<"3">>), StrCell(<<"T","o","t","a","l">>), NaN}

DutyCells == {StrCell(<<"A","M">>), StrCell(<<"P","M"," ","c","a","l","l">>), NaN}

RosterRows == {<<NaN, day, duty>> : day \in DayCells, duty \in DutyCells}

RosterHeader == Text(<<<<"W","e","e","k">>, <<"D","a","y">>, <<"C","h","a","n">>>>)

RosterBook(data) == Book(<<MakeSheet(MOSheet, RosterHeader, data)>>)

RosterFiles ==
    {[name |-> FnRoster, book |-> RosterBook(data)] : data \in SeqsUpTo(RosterRows, MaxRows)}
    \cup {[name |-> n, book |-> RosterBook(data)] :
             n \in {FnFebruary, FnBad}, data \in SeqsUpTo(RosterRows, 2)}

NextRoster ==
    \/ pc = "upload" /\ \E f \in RosterFiles : Upload(f)
    \/ DirectCalls

SpecRoster == Init /\ [][NextRoster]_vars

(* file names made of up to MaxPieces pieces *)

Pieces ==
    { <<"A","u","g","u","s","t">>, <<"m","A","y">>, <<" ">>, <<"\t", " ">>, <<"2","0","2","5">>, <<"1","9">>, <<"_">>,
      <<"j","U","N","E"," ","2","0","2","4"," ">>, <<"M","a","y"," ","1","9","9","9">> }

PieceNames == {Concat(ps) : ps \in SeqsUpTo(Pieces, MaxPieces)}

BasicData ==
    << <<NaN, NumCell(1), StrCell(<<"A","M">>)>>, <<NaN, NumCell(2), StrCell(<<"P","M"," ","c","a","l","l">>)>> >>

NamedBook(name) == Book(<<MakeSheet(name, RosterHeader, BasicData)>>)

SheetNames == {SeniorSheet, MOSheet, PartTimeSheet, <<"D","u","t","y"," ","X">>, <<"D","u","t","y"," ","-"," ","s","e","n","i","o","r">>}

FilenameFiles ==
    {[name |-> n, book |-> NamedBook(MOSheet)] : n \in PieceNames}
    \cup {[name |-> FnAugust, book |-> NamedBook(s)] : s \in SheetNames}

NextFilename ==
    \/ pc = "upload" /\ \E f \in FilenameFiles : Upload(f)
    \/ WizardSteps
    \/ DirectCalls

SpecFilename == Init /\ [][NextFilename]_vars

(* header rows of up to MaxCols columns *)

HeaderCells ==
    { StrCell(<<"W","e","e","k">>), StrCell(<<"D","a","t","e">>), StrCell(<<"C","h","a","n">>), StrCell(<<"S","i","m","o","n">>),
      StrCell(<<"N","E","W","T","O","N">>), StrCell(<<" ","B"," ">>), StrCell(<<" ">>), StrCell(<<"D","r","2">>), NaN }

DataRow(width, day) ==
    [i \in 1..width |-> IF i = 1 THEN NaN ELSE IF i = 2 THEN NumCell(day) ELSE StrCell(<<"A","M">>)]

ClassifierBook(header) ==
    Book(<<MakeSheet(MOSheet, header, <<DataRow(Len(header), 1), DataRow(Len(header), 2)>>)>>)

ClassifierFiles ==
    {[name |-> FnRoster, book |-> ClassifierBook(h)] : h \in SeqsUpTo(HeaderCells, MaxCols)}

NextClassifier ==
    \/ pc = "upload" /\ \E f \in ClassifierFiles : Upload(f)
    \/ WizardSteps

SpecClassifier == Init /\ [][NextClassifier]_vars

-----------------------------------------------------------------------------
(* Properties.  The notions the statements use are defined here from       *)
(* their wording, apart from the operators above.                          *)

TwelveMonths ==
    << <<"j","a","n","u","a","r","y">>, <<"f","e","b","r","u","a","r","y">>, <<"m","a","r","c","h">>, <<"a","p","r","i","l">>, <<"m","a","y">>, <<"j","u","n","e">>,
       <<"j","u","l","y">>, <<"a","u","g","u","s","t">>, <<"s","e","p","t","e","m","b","e","r">>, <<"o","c","t","o","b","e","r">>, <<"n","o","v","e","m","b","e","r">>, <<"d","e","c","e","m","b","e","r">> >>

TwoDigitMonth ==
    << <<"0","1">>, <<"0","2">>, <<"0","3">>, <<"0","4">>, <<"0","5">>, <<"0","6">>,
       <<"0","7">>, <<"0","8">>, <<"0","9">>, <<"1","0">>, <<"1","1">>, <<"1","2">> >>

\* month m at i in any casing, then w >= 1 whitespace characters, then four digits
MonthAt(fn, i, m) ==
    LET name == TwelveMonths[m]
    IN /\ i + Len(name) - 1 <= Len(fn)
       /\ \A j \in 1..Len(name) : lowerChar(fn[i + j - 1]) = name[j]

YearAfter(fn, j, w) ==
    /\ j + w + 3 <= Len(fn)
    /\ \A t \in j..(j + w - 1) : fn[t] \in {" ", "\t"}
    /\ \A t \in (j + w)..(j + w + 3) : fn[t] \in DigitSet

TokenAt(fn, i, m) ==
    /\ MonthAt(fn, i, m)
    /\ \E w \in 1..Len(fn) : YearAfter(fn, i + Len(TwelveMonths[m]), w)

HasToken(fn) == \E i \in 1..Len(fn) : \E m \in 1..12 : TokenAt(fn, i, m)

\* the first occurrence: <<start, month number, width of the whitespace>>
FirstToken(fn) ==
    LET i == CHOOSE i \in 1..Len(fn) :
                 /\ \E m \in 1..12 : TokenAt(fn, i, m)
                 /\ \A j \in 1..(i - 1) : \A m \in 1..12 : ~TokenAt(fn, j, m)
        m == CHOOSE m \in 1..12 : TokenAt(fn, i, m)
        w == CHOOSE w \in 1..Len(fn) : YearAfter(fn, i + Len(TwelveMonths[m]), w)
    IN <<i, m, w>>

TokenMonth(fn) ==
    LET tk == FirstToken(fn) IN SubSeq(fn, tk[1], tk[1] + Len(TwelveMonths[tk[2]]) - 1)

TokenYear(fn) ==
    LET tk == FirstToken(fn)
        y == tk[1] + Len(TwelveMonths[tk[2]]) + tk[3]
    IN SubSeq(fn, y, y + 3)

(* rows of the sheet a direct call was made on *)

CalledData ==
    LET sheet == SheetOf(uploaded_file.book, result.sheet_name)
    IN SubSeq(sheet.rows, BannerRows(sheet.name) + 2, Len(sheet.rows))

CalledHeader ==
    LET sheet == SheetOf(uploaded_file.book, result.sheet_name)
    IN sheet.rows[BannerRows(sheet.name) + 1]

\* the call reaches the rows: the file name carries a date, the name is a
\* column to the right of the week and day columns
Extracting ==
    /\ result.called
    /\ HasToken(result.filename)
    /\ \E i \in 3..Len(CalledHeader) : CalledHeader[i] = StrCell(result.duty_column_name)

TargetIndex == CHOOSE i \in 3..Len(CalledHeader) : CalledHeader[i] = StrCell(result.duty_column_name)

DigitText(cell) == cell.k = "str" /\ cell.s # << >> /\ Range(cell.s) \subseteq DigitSet

HasDay(row) == row[2].k = "num" \/ DigitText(row[2])

DayNumber(row) == IF row[2].k = "num" THEN row[2].n ELSE int(row[2].s)

HasDuty(row) == row[TargetIndex].k # "nan"

DutyText(row) == row[TargetIndex].s

Retained == SelectSeq(CalledData, LAMBDA row : HasDay(row) /\ HasDuty(row))

HasDayOne == \E i \in 1..Len(Retained) : DayNumber(Retained[i]) = 1

FromAnchor ==
    LET a == CHOOSE i \in 1..Len(Retained) :
                 /\ DayNumber(Retained[i]) = 1
                 /\ \A j \in 1..(i - 1) : DayNumber(Retained[j]) # 1
    IN SubSeq(Retained, a, Len(Retained))

DayPart(date) == int(SubSeq(date, 9, Len(date)))

C2_RecordConstruction ==
    (Extracting /\ result.final_df # None) =>
        LET fn == result.filename
            m == FirstToken(fn)[2]
            year == TokenYear(fn)
            kept == FromAnchor
        IN /\ HasDayOne
           /\ Len(result.final_df.v) = Len(kept)
           /\ result.date_info = Some(<<TokenMonth(fn), year>>)
           /\ \A i \in 1..Len(kept) :
                 LET rec == result.final_df.v[i]
                     day == DayNumber(kept[i])
                 IN /\ rec.Subject = DutyText(kept[i])
                    /\ rec.All_Day_Event = "True"
                    /\ Len(rec.Start_Date) = 10
                    /\ SubSeq(rec.Start_Date, 1, 4) = year
                    /\ rec.Start_Date[5] = "-"
                    /\ SubSeq(rec.Start_Date, 6, 7) = TwoDigitMonth[m]
                    /\ rec.Start_Date[8] = "-"
                    /\ SubSeq(rec.Start_Date, 9, 10) =
                           <<DigitChars[(day \div 10) + 1], DigitChars[(day % 10) + 1]>>

\* FEBRUARY 2024 in capitals, days 1 and 30: a record dated 2024-02-30
C2_Witness ==
    /\ Extracting
    /\ result.filename = FnFebruary
    /\ result.final_df # None
    /\ Len(result.final_df.v) = 2
    /\ result.final_df.v[1] =
           [Subject |-> <<"A","M">>, Start_Date |-> <<"2","0","2","4","-","0","2","-","0","1">>, All_Day_Event |-> "True"]
    /\ result.final_df.v[2] =
           [Subject |-> <<"P","M"," ","c","a","l","l">>, Start_Date |-> <<"2","0","2","4","-","0","2","-","3","0">>, All_Day_Event |-> "True"]

WithoutDropped ==
    [name |-> uploaded_file.name,
     book |-> Book(<<MakeSheet(result.sheet_name, CalledHeader, Retained)>>)]

TopLevelDone == pc \notin {"upload", "match"}

Occurrences(seq, x) == Cardinality({i \in 1..Len(seq) : seq[i] = x})

\* C5: a file name with a month name, whitespace and four digits gives the
\* month as written and the year of the first occurrence, at top level and in
\* process_roster; a file name without gives the file name error and nothing
C5_FilenameExtraction ==
    /\ TopLevelDone =>
          LET fn == uploaded_file.name
          IN IF HasToken(fn)
             THEN /\ filename_month_name = Some(TokenMonth(fn))
                  /\ filename_year_str = Some(TokenYear(fn))
             ELSE /\ filename_month_name = None
                  /\ filename_year_str = None
                  /\ pc = "stopped"
                  /\ Occurrences(messages, "filename_format") = 1 + (IF result.called THEN 1 ELSE 0)
    /\ result.called =>
          LET fn == result.filename
          IN IF HasToken(fn)
             THEN /\ result.locals.month_name = Some(TokenMonth(fn))
                  /\ result.locals.year_str = Some(TokenYear(fn))
                  /\ result.message # "filename_format"
                  /\ result.date_info \in {None, Some(<<TokenMonth(fn), TokenYear(fn)>>)}
             ELSE /\ result.message = "filename_format"
                  /\ result.final_df = None
                  /\ result.date_info = None
                  /\ result.locals = NoLocals

\* two occurrences, the first in mixed casing: the first is returned as written
C5_Witness ==
    /\ TopLevelDone
    /\ result.called
    /\ uploaded_file.name = <<"j","U","N","E"," ","2","0","2","4"," ","M","a","y"," ","1","9","9","9">>
    /\ filename_month_name = Some(<<"j","U","N","E">>)
    /\ filename_year_str = Some(<<"2","0","2","4">>)
    /\ result.date_info = Some(<<<<"j","U","N","E">>, <<"2","0","2","4">>>>)

\* C9: the top-level extraction and the one of process_roster give the same
\* month and year or both fail, and both reads of a sheet skip the same
\* number of rows: 3 for "Duty - Senior", 2 for any other name
C9_DuplicatedExtraction ==
    /\ (TopLevelDone /\ result.called) =>
          /\ result.locals.month_name = filename_month_name
          /\ result.locals.year_str = filename_year_str
          /\ result.date_info # None =>
                result.date_info = Some(<<filename_month_name.v, filename_year_str.v>>)
    /\ (skiprows # None /\ result.called /\ result.sheet_name = selected_sheet.v) =>
          /\ result.locals.skiprows = skiprows
          /\ skiprows = Some(IF selected_sheet.v = SeniorSheet THEN 3 ELSE 2)

\* the senior sheet read with 3 rows skipped by both, the dates from "August 2025"
C9_Witness ==
    /\ TopLevelDone
    /\ result.called
    /\ selected_sheet = Some(SeniorSheet)
    /\ skiprows = Some(3)
    /\ result.locals.skiprows = Some(3)
    /\ filename_month_name = Some(<<"A","u","g","u","s","t">>)
    /\ result.date_info = Some(<<<<"A","u","g","u","s","t">>, <<"2","0","2","5">>>>)
    /\ download # None

(* the classifier *)

RoleSubstrings ==
    { <<"w","e","e","k">>, <<"d","a","y">>, <<"a","m">>, <<"p","m">>, <<"c","o","n","s","u","l","t","a","n","t">>, <<"s","p","e","c","i","a","l","i","s","t">>,
      <<"f","i","n","a","l"," ","c","a","l","l">>, <<"p","a","r","t","-","t","i","m","e">>, <<"l","o","c","u","m">>, <<"f","u","l","l">>, <<"h","a","l","f">>, <<"t","o","t","a","l">>,
      <<"i","c">>, <<"a","e">>, <<"a","w">>, <<"p","w">>, <<"r","a","t">>, <<"l","e","a","v","e">>, <<"a","c">>, <<"i","n","t","e","r","n">>,
      <<"r","s">>, <<"r","t">>, <<"s","m","o">>, <<"c","o","n","s">>, <<"e","m","w">>, <<"n","e","w">>, <<"r","o","t","a","t","i","o","n">>,
      <<"s","u","r">>, <<"o","r","t">>, <<"d","i","i","r">>, <<"v","i","s","i","t","i","n","g"," ","d","r">>, <<"f","a","l","l">>, <<"s","h","i","f","t">>,
      <<"q","e","h">>, <<"m","o">>, <<"f","m">>, <<"o","r","t","h","o">> }

Placeholder(h) == Contains(lower(h), <<"u","n","n","a","m","e","d">>)

SingleCharacter(h) == Len(strip(lower(h))) = 1

HasDigit(h) == \E i \in 1..Len(h) : h[i] \in DigitSet

HasRole(h) == \E r \in RoleSubstrings : Contains(lower(h), r)

Excluded(h) == Placeholder(h) \/ SingleCharacter(h) \/ HasDigit(h) \/ HasRole(h)

\* C6: the candidate names are the headers none of the four rules excludes,
\* in column order; classifying the headers again, or the candidates, gives
\* the same list
C6_Classifier ==
    df_for_cols # None =>
        /\ duty_names = SelectSeq(df_for_cols.v, LAMBDA h : ~Excluded(h))
        /\ classify(df_for_cols.v) = duty_names
        /\ classify(duty_names) = duty_names

\* "Simon" holds "mo" and is excluded; "Date" and "Chan" stay, in order
C6_Witness ==
    /\ df_for_cols = Some(<<<<"D","a","t","e">>, <<"S","i","m","o","n">>, <<"C","h","a","n">>>>)
    /\ duty_names = <<<<"D","a","t","e">>, <<"C","h","a","n">>>>

\* C10: no name offered for selection is missing from the sheet as
\* process_roster reads it
C10_OfferedNamesAreColumns ==
    (pc = "done" /\ result.called) => result.message # "column_not_found"

(* the wizard *)

\* C7: the download is offered only for a table with its date info; a failing
\* process_roster returns (None, None), shows a message, and nothing is offered
C7_NoPartialOutput ==
    /\ download # None =>
          /\ pc = "done"
          /\ result.called
          /\ result.final_df # None
          /\ result.date_info # None
          /\ download.v.table = result.final_df.v
    /\ result.called =>
          /\ result.final_df = None <=> result.date_info = None
          /\ result.message = "none" <=> result.final_df # None
          /\ result.message # "none" =>
                /\ result.message \in Range(messages)
                /\ download = None
    /\ pc = "stopped" => download = None /\ messages # << >>

\* the generate button on a sheet without day 1: the error and no download
C7_Witness ==
    /\ pc = "done"
    /\ result.message = "month_start"
    /\ result.final_df = None
    /\ result.date_info = None
    /\ messages = <<"month_start">>
    /\ download = None

DutyInName(name) == \E i \in 1..(Len(name) - 3) : SubSeq(name, i, i + 3) = <<"D","u","t","y">>

\* C8: the workbook is opened only after the file name gave a date, a sheet
\* is selected only among sheets named with "Duty", a name is selected and
\* process_roster runs only with candidate names and after the click
C8_WorkflowGating ==
    /\ xls => filename_month_name # None /\ HasToken(uploaded_file.name)
    /\ pc \in {"sheet", "classify", "name", "generate", "done"} =>
          /\ xls
          /\ \E i \in 1..Len(uploaded_file.book.sheets) :
                DutyInName(uploaded_file.book.sheets[i].name)
    /\ selected_sheet # None => xls /\ DutyInName(selected_sheet.v)
    /\ (pc \in {"name", "generate", "done"} \/ selected_name # None) =>
          /\ selected_sheet # None
          /\ df_for_cols # None
          /\ duty_names # << >>
    /\ result.called =>
          /\ pc = "done"
          /\ selected_name # None
          /\ selected_name.v \in Range(duty_names)
          /\ result.duty_column_name = selected_name.v
          /\ result.sheet_name = selected_sheet.v
    /\ (TopLevelDone /\ ~HasToken(uploaded_file.name)) =>
          /\ pc = "stopped"
          /\ ~xls
          /\ selected_sheet = None
          /\ df_for_cols = None
          /\ ~result.called

\* a file name without a date: the error, and the workbook was never opened
C8_Witness ==
    /\ pc = "stopped"
    /\ uploaded_file.name = FnBad
    /\ uploaded_file.book.readable
    /\ messages = <<"filename_format">>
    /\ ~xls

=============================================================================
